---- MODULE Spec2Model ----
(***************************************************************************)
(* Model of metar-command-center.                                           *)
(*                                                                         *)
(* The outage ledger: the route handlers GET / POST / DELETE of            *)
(* src/app/api/maintenance/route.ts over a single persisted blob.  A       *)
(* handler is a sequence of steps separated by its awaits: POST reads the  *)
(* ledger (getData), runs its synchronous update loop and trim, and then   *)
(* awaits saveData; several handlers may be in flight at once.             *)
(*                                                                         *)
(* The batch collector: GET of src/app/api/metar/all/route.ts, which       *)
(* fetches the provider's reports state by state in groups, decodes them   *)
(* (lib/metarUtils) and keeps one observation per station.                 *)
(*                                                                         *)
(* The client: the statistics of the maintenance store                     *)
(* (src/stores/maintenanceStore.ts) and the single-station search of the   *)
(* page (src/app/page.tsx, src/hooks/useMetar.ts).                         *)
(***************************************************************************)
EXTENDS Integers, Sequences, FiniteSets, TLC

VARIABLES
    store,      \* the persisted blob: Null (no blob / no file) or Some(ledger)
    now,        \* the wall clock read by Date.now()
    pc,         \* per handler: "idle" or "saving" (POST awaiting saveData)
    data,       \* per handler: POST's in-memory `data` after the loop and trim
    snapshot,   \* per handler: what POST's getData returned (history variable)
    updates,    \* per handler: the request body of the POST in flight
    resp,       \* per handler: the last response it sent
    io,         \* per handler: how its last store operation ended
    hist,       \* the batches the persisted ledger was derived from, oldest first
    histOf,     \* per handler: the history its in-memory ledger is derived from
    feed,       \* per state of the collector's list: what the provider answers
    collPc,     \* the collector: "idle", "awaiting" (Promise.all) or "returned"
    batchStart, \* the collector's loop variable `i`
    fetchState, \* per state: "none", "pending" or "settled"
    fetches,    \* per state: how many fetches were issued for it (history variable)
    results,    \* per state: what its settled promise holds
    allMetars,  \* the collector's `allMetars`
    reply,      \* the collector's response: Null or Some(response)
    arg,        \* the argument of a call of a decoder function
    ret,        \* what the call returned: Null or Some(value)
    clientOutageLog,  \* `outageLog` of the client's maintenance store
    clientStationStatus,  \* `stationStatus` of the client's maintenance store
    isLoading,        \* `isLoading` of the client's maintenance store
    lastFetch,        \* `lastFetch` of the client's maintenance store: Null or Some(ms)
    clientNow,        \* the browser's clock, in ms
    call,             \* per call of the store in flight: where it is, and its locals
    searchQuery,      \* the text in the page's search box
    selectedStation,  \* the page's `selectedStation`: Null or Some(icao)
    requests          \* the single-station requests sent so far (history variable)

ledgerVars == <<store, now, pc, data, snapshot, updates, resp, io, hist, histOf>>
collectorVars ==
    <<feed, collPc, batchStart, fetchState, fetches, results, allMetars, reply>>
callVars == <<arg, ret>>
storeVars == <<clientStationStatus, isLoading, lastFetch, clientNow, call>>
clientVars == <<clientOutageLog, searchQuery, selectedStation, requests, storeVars>>

\* What the handlers of the ledger leave alone.
others == <<collectorVars, callVars, clientVars>>

vars == <<ledgerVars, others>>

----------------------------------------------------------------------------
(* Bounds of the model. *)

\* Successful POSTs recorded since the ledger was last empty.
MaxHist == 4
\* Successful POSTs followed when handlers overlap.
MaxConcHist == 2
\* Largest value of the wall clock.
MaxNow == 1
\* Successful POSTs followed while the clock advances.
MaxTimedHist == 2
\* How far below the cap of 1000 events a nearly full ledger may start.
TrimRoom == 2
\* Successful POSTs followed on a nearly full ledger.
MaxTrimPosts == 1
\* Successful POSTs followed when request bodies hold several updates.
MaxBatchHist == 2
\* Successful POSTs followed on a full ledger whose oldest event is open.
MaxStalePosts == 2
\* Successful POSTs of the client's store followed.
MaxClientPosts == 1
\* Quarters of a minute the browser's clock advances.
MaxClientTicks == 2

----------------------------------------------------------------------------
(* Values. `T | null` is an option: Null or Some(v). *)

\* The request handlers that may be in flight at once.
Handlers == {1, 2}

Null == <<>>
Some(v) == <<v>>
Get(o) == o[1]

Stations == {"KORD", "KXXX"}
NameOf(icao) == IF icao = "KORD" THEN "Chicago O'Hare" ELSE "Test Field"

\* Observation times in epoch milliseconds, and the day-hour-minute string of
\* the report observed then.
Times == {0, 29999, 90000}
ZuluOf(t) == IF t < 60000 THEN "171553Z" ELSE "171554Z"

\* One element of the POST body.
Update(icao, hasFlag, obsTime, observationTime) ==
    [icao |-> icao, stationName |-> NameOf(icao), hasFlag |-> hasFlag,
     obsTime |-> obsTime, observationTime |-> observationTime]

UpdatesAt(times) ==
    {Update(s, f, t, ZuluOf(t)) : s \in Stations, f \in BOOLEAN, t \in times}

\* Request bodies holding exactly one update: KORD observed at 0 or 90 s,
\* KXXX at 0.
SingleBatches ==
    {<<u>> : u \in {v \in UpdatesAt({0, 90000}) : v.icao = "KORD" \/ v.obsTime = 0}}

\* Request bodies holding one update of any station at any time.
AnyBatches == {<<u>> : u \in UpdatesAt(Times)}

\* The request bodies of overlapping handlers: one update, one observation time.
OverlapBatches == {<<u>> : u \in UpdatesAt({0})}

\* Request bodies of one or two updates.
PairBatches == OverlapBatches \cup {<<u, v>> : u, v \in UpdatesAt({0})}

\* Request bodies that hold several updates: two or three of KORD, the first
\* observed at 0 and the later ones at 90 s, or one of KORD next to one of KXXX.
Kord(hasFlag, obsTime) == Update("KORD", hasFlag, obsTime, ZuluOf(obsTime))
Kxxx(hasFlag) == Update("KXXX", hasFlag, 0, ZuluOf(0))
MultiBatches ==
    {<<Kord(f, 0), Kord(g, 90000)>> : f, g \in BOOLEAN}
      \cup {<<Kord(f, 0), Kord(g, 90000), Kord(e, 90000)>> : f, g, e \in BOOLEAN}
      \cup {<<Kord(f, 0), Kxxx(TRUE)>> : f \in BOOLEAN}
      \cup {<<Kxxx(f), Kord(TRUE, 0)>> : f \in BOOLEAN}

MAX_OUTAGE_EVENTS == 1000

EmptyLedger == [stationStatus |-> [s \in Stations |-> Null], outageLog |-> <<>>]

----------------------------------------------------------------------------
(* getData / saveData *)

\* Mutant: a read that throws is tried again and succeeds.
getData_retrying(blob, readOk) ==
    IF blob # Null THEN Get(blob) ELSE EmptyLedger

\* getData: the blob, or the empty ledger when there is none or the read throws.
getData(blob, readOk) ==
    IF readOk /\ blob # Null THEN Get(blob) ELSE EmptyLedger

\* How that read ended: the blob was there, there was none, or the read threw.
readOutcome(blob, readOk) ==
    IF ~readOk THEN "error" ELSE IF blob = Null THEN "absent" ELSE "ok"

\* Mutant: the write merges per station and keeps the stored statuses of the
\* stations the written ledger has none for.
saveData_merging(blob, ledger, writeOk) ==
    IF ~writeOk THEN blob
    ELSE IF blob = Null THEN Some(ledger)
    ELSE Some([ledger EXCEPT !.stationStatus =
                 [s \in Stations |-> IF ledger.stationStatus[s] = Null
                                     THEN Get(blob).stationStatus[s]
                                     ELSE ledger.stationStatus[s]]])

\* saveData: the blob after the write, which replaces it whole or fails.  The
\* store is a key-value store: a set that throws has written nothing.
saveData(blob, ledger, writeOk) ==
    IF writeOk THEN Some(ledger) ELSE blob

----------------------------------------------------------------------------
(* The body of POST's loop. *)

\* Mutant: the quotient truncated instead of rounded.
Round_truncated(n, d) == n \div d

\* Math.round(n / d) for d > 0: floor(n/d + 1/2).
Round(n, d) == (2 * n + d) \div (2 * d)

newEvent(u) ==
    [icao |-> u.icao, stationName |-> u.stationName,
     startTime |-> u.obsTime, startTimeZulu |-> u.observationTime,
     endTime |-> Null, endTimeZulu |-> Null, duration |-> Null]

\* Mutant: the end is recorded without the duration.
closeEvent_withoutDuration(event, u) ==
    [event EXCEPT !.endTime = Some(u.obsTime),
                  !.endTimeZulu = Some(u.observationTime)]

\* Mutant: the duration is not clamped at 0.
closeEvent_unclamped(event, u) ==
    [event EXCEPT !.endTime = Some(u.obsTime),
                  !.endTimeZulu = Some(u.observationTime),
                  !.duration = Some(Round(u.obsTime - event.startTime, 60000))]

closeEvent(event, u) ==
    LET duration == Round(u.obsTime - event.startTime, 60000)
    IN  [event EXCEPT !.endTime = Some(u.obsTime),
                      !.endTimeZulu = Some(u.observationTime),
                      !.duration = Some(IF duration > 0 THEN duration ELSE 0)]

\* Mutant: the stored status is not consulted.
wasDown_ignored(ledger, icao) == FALSE

\* Mutant: a station without a stored status counts as down.
wasDown_absentIsDown(ledger, icao) ==
    LET currentStatus == ledger.stationStatus[icao]
    IN  IF currentStatus = Null THEN TRUE ELSE Get(currentStatus).hasFlag

wasDown(ledger, icao) ==
    LET currentStatus == ledger.stationStatus[icao]
    IN  IF currentStatus = Null THEN FALSE ELSE Get(currentStatus).hasFlag

\* Mutant: a recovery closes nothing.
closeOutages_none(log, u) == log

\* Mutant: a recovery closes the open events of every station.
closeOutages_anyStation(log, u) ==
    [i \in DOMAIN log |->
        IF log[i].endTime = Null THEN closeEvent(log[i], u) ELSE log[i]]

\* Mutant: every event of the station is closed again, the closed ones too.
closeOutages_all(log, u) ==
    [i \in DOMAIN log |->
        IF log[i].icao = u.icao THEN closeEvent(log[i], u) ELSE log[i]]

closeOutages(log, u) ==
    [i \in DOMAIN log |->
        IF log[i].icao = u.icao /\ log[i].endTime = Null
        THEN closeEvent(log[i], u) ELSE log[i]]

\* Mutant: a flagged update opens an event whether or not the station was down.
applyUpdate_reopening(ledger, u, clock) ==
    LET down == wasDown(ledger, u.icao)
        log == IF u.hasFlag THEN Append(ledger.outageLog, newEvent(u))
               ELSE IF down THEN closeOutages(ledger.outageLog, u)
               ELSE ledger.outageLog
        status == [hasFlag |-> u.hasFlag, lastSeen |-> clock, lastObsTime |-> u.obsTime,
                   lastObsTimeZulu |-> u.observationTime, stationName |-> u.stationName]
    IN  [stationStatus |-> [ledger.stationStatus EXCEPT ![u.icao] = Some(status)],
         outageLog |-> log]

\* Mutant: the station's status is not written back.
applyUpdate_statusNotStored(ledger, u, clock) ==
    LET down == wasDown(ledger, u.icao)
    IN  [ledger EXCEPT !.outageLog =
            IF down # u.hasFlag
            THEN IF u.hasFlag /\ ~down
                 THEN Append(ledger.outageLog, newEvent(u))
                 ELSE closeOutages(ledger.outageLog, u)
            ELSE ledger.outageLog]

\* One pass of the loop `for (const update of updates)`.
applyUpdate(ledger, u, clock) ==
    LET down == wasDown(ledger, u.icao)
        log == IF down # u.hasFlag
               THEN IF u.hasFlag /\ ~down
                    THEN Append(ledger.outageLog, newEvent(u))
                    ELSE closeOutages(ledger.outageLog, u)
               ELSE ledger.outageLog
        status == [hasFlag |-> u.hasFlag, lastSeen |-> clock,
                   lastObsTime |-> u.obsTime,
                   lastObsTimeZulu |-> u.observationTime,
                   stationName |-> u.stationName]
    IN  [stationStatus |-> [ledger.stationStatus EXCEPT ![u.icao] = Some(status)],
         outageLog |-> log]

\* Mutant: only the last update of the request body is applied.
applyUpdates_lastOnly(ledger, batch, clock) ==
    IF batch = <<>> THEN ledger
    ELSE applyUpdate(ledger, batch[Len(batch)], clock)

RECURSIVE applyUpdates(_, _, _)
applyUpdates(ledger, batch, clock) ==
    IF batch = <<>> THEN ledger
    ELSE applyUpdates(applyUpdate(ledger, Head(batch), clock), Tail(batch), clock)

\* Mutant: the trim drops closed events only.
trimLog_sparingOpen(log) ==
    IF Len(log) > MAX_OUTAGE_EVENTS
    THEN LET open == SelectSeq(log, LAMBDA e : e.endTime = Null)
             closed == SelectSeq(log, LAMBDA e : e.endTime # Null)
             room == MAX_OUTAGE_EVENTS - Len(open)
         IN  open \o SubSeq(closed, Len(closed) - room + 1, Len(closed))
    ELSE log

\* Mutant: the first 1000 events are kept, slice(0, 1000).
trimLog_keepsOldest(log) ==
    IF Len(log) > MAX_OUTAGE_EVENTS THEN SubSeq(log, 1, MAX_OUTAGE_EVENTS) ELSE log

\* data.outageLog.slice(-1000) when the log is longer than 1000.
trimLog(log) ==
    IF Len(log) > MAX_OUTAGE_EVENTS
    THEN SubSeq(log, Len(log) - MAX_OUTAGE_EVENTS + 1, Len(log))
    ELSE log

\* The ledger POST hands to saveData.
processBatch(ledger, batch, clock) ==
    LET d == applyUpdates(ledger, batch, clock)
    IN  [d EXCEPT !.outageLog = trimLog(d.outageLog)]

----------------------------------------------------------------------------
(* Responses *)

Ok(request) == [request |-> request, status |-> 200, body |-> "success"]
Failure(request, msg) == [request |-> request, status |-> 500, body |-> msg]
NoResponse == [request |-> "none", status |-> 0, body |-> "none"]

----------------------------------------------------------------------------
(* The handlers *)

\* No handler of the ledger in flight, nothing persisted.
LedgerIdle ==
    /\ store = Null
    /\ now = 0
    /\ pc = [h \in Handlers |-> "idle"]
    /\ data = [h \in Handlers |-> Null]
    /\ snapshot = [h \in Handlers |-> Null]
    /\ updates = [h \in Handlers |-> <<>>]
    /\ resp = [h \in Handlers |-> NoResponse]
    /\ io = [h \in Handlers |-> "none"]
    /\ hist = <<>>
    /\ histOf = [h \in Handlers |-> <<>>]

\* The collector not invoked.
CollectorIdle ==
    /\ feed = <<>>
    /\ collPc = "idle"
    /\ batchStart = 0
    /\ fetchState = <<>>
    /\ fetches = <<>>
    /\ results = <<>>
    /\ allMetars = <<>>
    /\ reply = Null

\* No decoder call made.
CallIdle ==
    /\ arg = Null
    /\ ret = Null

\* The calls of the client's store that may be in flight together: one of
\* updateStationStatuses (1) and one of fetchData (2).  The requests of call c
\* are answered by handler c.
Calls == Handlers

NoCall == [pc |-> "idle", batch |-> <<>>, startedAt |-> 0]

\* The maintenance store as created, no call made.
StoreIdle ==
    /\ clientStationStatus = [s \in Stations |-> Null]
    /\ isLoading = FALSE
    /\ lastFetch = Null
    /\ clientNow = 15000
    /\ call = [c \in Calls |-> NoCall]

\* The client as created: empty store, empty search box, nothing selected.
ClientIdle ==
    /\ clientOutageLog = <<>>
    /\ searchQuery = <<>>
    /\ selectedStation = Null
    /\ requests = <<>>
    /\ StoreIdle

Init ==
    /\ LedgerIdle
    /\ CollectorIdle
    /\ CallIdle
    /\ ClientIdle

\* Mutant: a read that throws is answered with a 500.
GET_propagating(h, readOk) ==
    /\ pc[h] = "idle"
    /\ resp' = [resp EXCEPT ![h] =
                  IF readOk
                  THEN [request |-> "GET", status |-> 200,
                        body |-> getData(store, readOk)]
                  ELSE Failure("GET", "Failed to read")]
    /\ io' = [io EXCEPT ![h] = readOutcome(store, readOk)]
    /\ UNCHANGED <<store, now, pc, data, snapshot, updates, hist, histOf>>
    /\ UNCHANGED others

\* GET: await getData(), answer with it.
GET(h, readOk) ==
    /\ pc[h] = "idle"
    /\ resp' = [resp EXCEPT ![h] = [request |-> "GET", status |-> 200,
                                    body |-> getData(store, readOk)]]
    /\ io' = [io EXCEPT ![h] = readOutcome(store, readOk)]
    /\ UNCHANGED <<store, now, pc, data, snapshot, updates, hist, histOf>>
    /\ UNCHANGED others

\* POST up to its await of saveData: read the ledger, run the loop, trim.
PostLoad(h, batch, readOk, maxHist) ==
    /\ pc[h] = "idle"
    /\ LET read == getData(store, readOk)
           base == IF readOk THEN hist ELSE <<>>
       IN  /\ Len(base) < maxHist
           /\ snapshot' = [snapshot EXCEPT ![h] = Some(read)]
           /\ data' = [data EXCEPT ![h] = Some(processBatch(read, batch, now))]
           /\ histOf' = [histOf EXCEPT ![h] = Append(base, batch)]
    /\ updates' = [updates EXCEPT ![h] = batch]
    /\ pc' = [pc EXCEPT ![h] = "saving"]
    /\ resp' = [resp EXCEPT ![h] = NoResponse]
    /\ io' = [io EXCEPT ![h] = readOutcome(store, readOk)]
    /\ UNCHANGED <<store, now, hist>>
    /\ UNCHANGED others

\* Mutant: saveData's result is not looked at, the answer is always success.
PostSave_unchecked(h, writeOk) ==
    /\ pc[h] = "saving"
    /\ store' = saveData(store, Get(data[h]), writeOk)
    /\ resp' = [resp EXCEPT ![h] = Ok("POST")]
    /\ io' = [io EXCEPT ![h] = IF writeOk THEN "ok" ELSE "error"]
    /\ hist' = IF writeOk THEN histOf[h] ELSE hist
    /\ pc' = [pc EXCEPT ![h] = "idle"]
    /\ data' = [data EXCEPT ![h] = Null]
    /\ snapshot' = [snapshot EXCEPT ![h] = Null]
    /\ updates' = [updates EXCEPT ![h] = <<>>]
    /\ histOf' = [histOf EXCEPT ![h] = <<>>]
    /\ UNCHANGED now
    /\ UNCHANGED others

\* POST from saveData's completion to its response.
PostSave(h, writeOk) ==
    /\ pc[h] = "saving"
    /\ store' = saveData(store, Get(data[h]), writeOk)
    /\ resp' = [resp EXCEPT ![h] =
                  IF writeOk THEN Ok("POST")
                  ELSE Failure("POST", "Failed to persist data")]
    /\ io' = [io EXCEPT ![h] = IF writeOk THEN "ok" ELSE "error"]
    /\ hist' = IF writeOk THEN histOf[h] ELSE hist
    /\ pc' = [pc EXCEPT ![h] = "idle"]
    /\ data' = [data EXCEPT ![h] = Null]
    /\ snapshot' = [snapshot EXCEPT ![h] = Null]
    /\ updates' = [updates EXCEPT ![h] = <<>>]
    /\ histOf' = [histOf EXCEPT ![h] = <<>>]
    /\ UNCHANGED now
    /\ UNCHANGED others

\* POST whose body cannot be read as an array of updates: the catch answers.
PostMalformed(h) ==
    /\ pc[h] = "idle"
    /\ resp' = [resp EXCEPT ![h] = Failure("POST", "Failed to update")]
    /\ io' = [io EXCEPT ![h] = "none"]
    /\ UNCHANGED <<store, now, pc, data, snapshot, updates, hist, histOf>>
    /\ UNCHANGED others

\* Mutant: DELETE answers with success and leaves the blob where it is.
DELETE_keeping(h, delOk) ==
    /\ pc[h] = "idle"
    /\ store' = store
    /\ hist' = IF delOk THEN <<>> ELSE hist
    /\ resp' = [resp EXCEPT ![h] =
                  IF delOk THEN Ok("DELETE") ELSE Failure("DELETE", "Failed to clear")]
    /\ io' = [io EXCEPT ![h] = IF delOk THEN "ok" ELSE "error"]
    /\ UNCHANGED <<now, pc, data, snapshot, updates, histOf>>
    /\ UNCHANGED others

\* DELETE: remove the blob (a missing file is not an error), or fail.
DELETE(h, delOk) ==
    /\ pc[h] = "idle"
    /\ store' = IF delOk THEN Null ELSE store
    /\ hist' = IF delOk THEN <<>> ELSE hist
    /\ resp' = [resp EXCEPT ![h] =
                  IF delOk THEN Ok("DELETE") ELSE Failure("DELETE", "Failed to clear")]
    /\ io' = [io EXCEPT ![h] = IF delOk THEN "ok" ELSE "error"]
    /\ UNCHANGED <<now, pc, data, snapshot, updates, histOf>>
    /\ UNCHANGED others

Tick ==
    /\ now < MaxNow
    /\ now' = now + 1
    /\ UNCHANGED <<store, pc, data, snapshot, updates, resp, io, hist, histOf>>
    /\ UNCHANGED others

----------------------------------------------------------------------------
(* Specifications *)

\* One handler at a time, single-update request bodies.
SeqNext ==
    \/ \E b \in SingleBatches, readOk \in BOOLEAN : PostLoad(1, b, readOk, MaxHist)
    \/ \E writeOk \in BOOLEAN : PostSave(1, writeOk)
    \/ \E delOk \in BOOLEAN : DELETE(1, delOk)
    \/ \E readOk \in BOOLEAN : GET(1, readOk)
    \/ PostMalformed(1)

SeqSpec == Init /\ [][SeqNext]_vars

\* Any number of handlers in flight: POSTs and DELETEs overlapping.
Next ==
    \/ \E h \in Handlers, b \in OverlapBatches, readOk \in BOOLEAN :
          PostLoad(h, b, readOk, MaxConcHist)
    \/ \E h \in Handlers, writeOk \in BOOLEAN : PostSave(h, writeOk)
    \/ \E h \in Handlers, delOk \in BOOLEAN : DELETE(h, delOk)

Spec == Init /\ [][Next]_vars

\* One handler at a time, the clock advancing between and within requests.
TimedNext ==
    \/ \E b \in AnyBatches, readOk \in BOOLEAN : PostLoad(1, b, readOk, MaxTimedHist)
    \/ \E writeOk \in BOOLEAN : PostSave(1, writeOk)
    \/ \E delOk \in BOOLEAN : DELETE(1, delOk)
    \/ \E readOk \in BOOLEAN : GET(1, readOk)
    \/ PostMalformed(1)
    \/ Tick

TimedSpec == Init /\ [][TimedNext]_vars

\* A closed outage of one minute, the i-th of a long log.
closedEvent(i) ==
    LET icao == IF i % 2 = 1 THEN "KORD" ELSE "KXXX"
    IN  [icao |-> icao, stationName |-> NameOf(icao),
         startTime |-> 120000 * i, startTimeZulu |-> "171553Z",
         endTime |-> Some(120000 * i + 60000), endTimeZulu |-> Some("171554Z"),
         duration |-> Some(1)]

\* The ledger after n such outages, every station up again.
fullLedger(n) ==
    [stationStatus |->
        [s \in Stations |->
            Some([hasFlag |-> FALSE, lastSeen |-> 0,
                  lastObsTime |-> 120000 * n + 60000,
                  lastObsTimeZulu |-> "171554Z", stationName |-> NameOf(s)])],
     outageLog |-> [i \in 1..n |-> closedEvent(i)]]

\* A ledger at the cap of 1000 events, or just below it.
TrimInit ==
    /\ store \in {Some(fullLedger(n)) :
                    n \in (MAX_OUTAGE_EVENTS - TrimRoom)..MAX_OUTAGE_EVENTS}
    /\ now = 0
    /\ pc = [h \in Handlers |-> "idle"]
    /\ data = [h \in Handlers |-> Null]
    /\ snapshot = [h \in Handlers |-> Null]
    /\ updates = [h \in Handlers |-> <<>>]
    /\ resp = [h \in Handlers |-> NoResponse]
    /\ io = [h \in Handlers |-> "none"]
    /\ hist = <<>>
    /\ histOf = [h \in Handlers |-> <<>>]
    /\ CollectorIdle
    /\ CallIdle
    /\ ClientIdle

TrimNext ==
    \/ \E b \in PairBatches : PostLoad(1, b, TRUE, MaxTrimPosts)
    \/ \E writeOk \in BOOLEAN : PostSave(1, writeOk)

TrimSpec == TrimInit /\ [][TrimNext]_vars

\* One handler at a time; the first request body holds one update, the later
\* ones several.
BatchNext ==
    \/ \E b \in (IF hist = <<>> THEN SingleBatches ELSE MultiBatches),
          readOk \in BOOLEAN : PostLoad(1, b, readOk, MaxBatchHist)
    \/ \E writeOk \in BOOLEAN : PostSave(1, writeOk)
    \/ \E delOk \in BOOLEAN : DELETE(1, delOk)

BatchSpec == Init /\ [][BatchNext]_vars

----------------------------------------------------------------------------
(* The report decoder: lib/metarUtils.  A raw report is the sequence of    *)
(* its blank-separated groups, read without leading or trailing blanks.    *)

\* The day-hour-minute groups a raw report may carry.
ZuluTokens == {"000000Z", "171553Z", "171554Z"}

\* The six digits of such a group.  Strings of six digits and a Z compare,
\* character by character, as their digits compare as numbers.
ZuluNum(z) ==
    CASE z = "000000Z" -> 0
      [] z = "171553Z" -> 171553
      [] z = "171554Z" -> 171554

\* rawOb.match(/\b(\d{6})Z\b/): the first day-hour-minute group, if any.
RECURSIVE timeMatch(_)
timeMatch(groups) ==
    IF groups = <<>> THEN Null
    ELSE IF Head(groups) \in ZuluTokens THEN Some(Head(groups))
    ELSE timeMatch(Tail(groups))

\* rawOb.trim().endsWith("$")
endsWithFlag(groups) == groups # <<>> /\ groups[Len(groups)] = "$"

\* A provider record.  icaoId, rawOb and fltCat may each be missing (Null).
Awc(icaoId, rawOb, fltCat) == [icaoId |-> icaoId, rawOb |-> rawOb, fltCat |-> fltCat]

\* transformMetar, for the fields the collector and the page read.  A missing
\* icaoId stays missing; a missing or empty fltCat becomes "VFR", any other
\* string is passed on.
transformMetar(awc) ==
    [icao |-> awc.icaoId,
     observation_time |->
        IF awc.rawOb = Null \/ timeMatch(Get(awc.rawOb)) = Null THEN ""
        ELSE Get(timeMatch(Get(awc.rawOb))),
     flight_category |->
        IF awc.fltCat = Null \/ Get(awc.fltCat) = "" THEN "VFR" ELSE Get(awc.fltCat),
     has_maintenance_flag |-> awc.rawOb # Null /\ endsWithFlag(Get(awc.rawOb))]

\* Visibility is kept in hundredths of a statute mile.
SM(n) == 100 * n

\* `visib` is a number, a string such as "10+", or missing.
NumberVisib(hundredths) == [type |-> "number", value |-> hundredths]
StringVisib == [type |-> "string", value |-> 0]
NoVisib == [type |-> "undefined", value |-> 0]

\* `let ceiling = Infinity`: above every cloud base.
Infinity == 1000000

\* Mutant: the ceiling is the base of the last BKN, OVC or VV layer.
lowestCeiling_last(clouds, ceiling) ==
    LET ceilings == SelectSeq(clouds, LAMBDA c : c.cover \in {"BKN", "OVC", "VV"})
    IN  IF ceilings = <<>> THEN ceiling ELSE ceilings[Len(ceilings)].base

\* The loop over the layers: the lowest base so far among BKN, OVC and VV.
RECURSIVE lowestCeiling(_, _)
lowestCeiling(clouds, ceiling) ==
    IF clouds = <<>> THEN ceiling
    ELSE LET c == Head(clouds)
         IN  lowestCeiling(Tail(clouds),
                           IF c.cover \in {"BKN", "OVC", "VV"} /\ c.base < ceiling
                           THEN c.base ELSE ceiling)

\* Mutant: the visibility test of MVFR is strict.
determineFltCat_strict(visib, clouds) ==
    LET ceiling == IF clouds = Null THEN Infinity
                   ELSE lowestCeiling(Get(clouds), Infinity)
        vis == IF visib.type = "number" THEN visib.value ELSE SM(10)
    IN  IF ceiling < 500 \/ vis < SM(1) THEN "LIFR"
        ELSE IF ceiling < 1000 \/ vis < SM(3) THEN "IFR"
        ELSE IF ceiling < 3000 \/ vis < SM(5) THEN "MVFR"
        ELSE "VFR"

\* determineFltCat(visib, clouds); `clouds` may be missing (Null).
determineFltCat(visib, clouds) ==
    LET ceiling == IF clouds = Null THEN Infinity
                   ELSE lowestCeiling(Get(clouds), Infinity)
        vis == IF visib.type = "number" THEN visib.value ELSE SM(10)
    IN  IF ceiling < 500 \/ vis < SM(1) THEN "LIFR"
        ELSE IF ceiling < 1000 \/ vis < SM(3) THEN "IFR"
        ELSE IF ceiling < 3000 \/ vis <= SM(5) THEN "MVFR"
        ELSE "VFR"

\* transformTaf, for the category of each forecast period.
transformTaf(awc) ==
    [icao |-> awc.icaoId,
     forecasts |-> [k \in DOMAIN awc.fcsts |->
                      [flight_category |->
                          determineFltCat(awc.fcsts[k].visib, awc.fcsts[k].clouds)]]]

\* The calls made of the decoder.
CallDetermineFltCat ==
    /\ arg # Null /\ Get(arg).fn = "determineFltCat"
    /\ ret = Null
    /\ ret' = Some(determineFltCat(Get(arg).visib, Get(arg).clouds))
    /\ UNCHANGED <<arg, ledgerVars, collectorVars, clientVars>>

CallTransformMetar ==
    /\ arg # Null /\ Get(arg).fn = "transformMetar"
    /\ ret = Null
    /\ ret' = Some(transformMetar(Get(arg).awc))
    /\ UNCHANGED <<arg, ledgerVars, collectorVars, clientVars>>

CallTransformTaf ==
    /\ arg # Null /\ Get(arg).fn = "transformTaf"
    /\ ret = Null
    /\ ret' = Some(transformTaf(Get(arg).taf))
    /\ UNCHANGED <<arg, ledgerVars, collectorVars, clientVars>>

\* Inputs of the decoder.
\* Most cloud layers of one report or forecast period.
MaxLayers == 2

Layers == [cover : {"SCT", "BKN", "VV"}, base : {499, 500, 999, 1000, 2999, 3000}]

RECURSIVE SeqsUpTo(_, _)
SeqsUpTo(S, n) ==
    IF n = 0 THEN {<<>>}
    ELSE LET shorter == SeqsUpTo(S, n - 1)
         IN  shorter \cup {Append(q, x) : q \in shorter, x \in S}

CloudInputs == {Null} \cup {Some(layers) : layers \in SeqsUpTo(Layers, MaxLayers)}

VisibInputs ==
    {NoVisib, StringVisib}
      \cup {NumberVisib(v) : v \in {50, 99, 100, 299, 300, 499, 500, 501, 1000}}

RawReports ==
    {Null, Some(<<"KORD", "171553Z", "AUTO">>), Some(<<"KORD", "AUTO", "$">>)}

Categories == {Null, Some(""), Some("VFR"), Some("LIFR"), Some("UNKN")}

MetarInputs ==
    {Awc(id, raw, cat) : id \in {Null, Some("KORD")}, raw \in RawReports,
                         cat \in Categories}

\* A forecast with one period.
TafInputs ==
    {[icaoId |-> Some("KORD"), fcsts |-> <<[visib |-> v, clouds |-> c]>>] :
        v \in {NoVisib, NumberVisib(SM(5))},
        c \in {Null, Some(<<[cover |-> "OVC", base |-> 400]>>)}}

DecoderInit ==
    /\ \/ arg \in {Some([fn |-> "determineFltCat", visib |-> v, clouds |-> c]) :
                      v \in VisibInputs, c \in CloudInputs}
       \/ arg \in {Some([fn |-> "transformMetar", awc |-> a]) : a \in MetarInputs}
       \/ arg \in {Some([fn |-> "transformTaf", taf |-> t]) : t \in TafInputs}
    /\ ret = Null
    /\ LedgerIdle
    /\ CollectorIdle
    /\ ClientIdle

DecoderNext ==
    \/ CallDetermineFltCat
    \/ CallTransformMetar
    \/ CallTransformTaf

DecoderSpec == DecoderInit /\ [][DecoderNext]_vars

----------------------------------------------------------------------------
(* The batch collector: GET of src/app/api/metar/all/route.ts.  The handler *)
(* walks its list of states in groups: it issues the fetches of a group,   *)
(* awaits them all, appends what they returned and goes on to the next     *)
(* group; after the last group it removes duplicates and answers.          *)

\* The length of `states`: the fifty states and dc.
NumStates == 51

batchSize == 10

\* What the fetch of one state meets: the request is rejected, it is never
\* answered, it is answered with a status outside 2xx, with a body that is no
\* JSON, with JSON that is no array, or with an array.  An item of the array
\* is a provider record, or null (Null).
Rejected == [outcome |-> "rejected", body |-> Null]
Silent == [outcome |-> "silent", body |-> Null]
Non2xx == [outcome |-> "non2xx", body |-> Null]
BadJson == [outcome |-> "badJson", body |-> Null]
NotArray == [outcome |-> "notArray", body |-> Null]
ArrayBody(items) == [outcome |-> "array", body |-> Some(items)]

\* Mutant: the items that cannot be decoded are skipped and the rest is kept.
partitionResult_skipping(r) ==
    IF r.outcome # "array" THEN <<>>
    ELSE LET good == SelectSeq(Get(r.body), LAMBDA item : item # Null)
         IN  [k \in DOMAIN good |-> transformMetar(Get(good[k]))]

\* The async function mapped over a group, from the answer on: [] unless the
\* answer is ok and an array; transformMetar throws on a null item, and the
\* catch turns that into [] as well.
partitionResult(r) ==
    IF r.outcome # "array" THEN <<>>
    ELSE LET items == Get(r.body)
         IN  IF \E k \in DOMAIN items : items[k] = Null THEN <<>>
             ELSE [k \in DOMAIN items |-> transformMetar(Get(items[k]))]

\* states.slice(i, i + batchSize), as positions 1..n of the list.
Batch(i, n) == {p \in 1..n : i < p /\ p <= i + batchSize}

\* results.flat() over the positions first..last.
RECURSIVE flat(_, _, _)
flat(res, first, last) ==
    IF first > last THEN <<>>
    ELSE res[first] \o flat(res, first + 1, last)

\* observation_time || "000000Z"
orZero(observationTime) == IF observationTime = "" THEN "000000Z" ELSE observationTime

\* Mutant: the observation seen first is kept whatever comes later.
dedupeStep_keepFirst(stationMap, metar) ==
    LET at == {k \in DOMAIN stationMap : stationMap[k].icao = metar.icao}
    IN  IF at = {} THEN Append(stationMap, metar)
        ELSE stationMap

\* One round of the loop over allMetars.  The Map is kept as the sequence of
\* its values in insertion order, the key of a value being its icao (a missing
\* icao is a key like any other).
dedupeStep(stationMap, metar) ==
    LET at == {k \in DOMAIN stationMap : stationMap[k].icao = metar.icao}
    IN  IF at = {} THEN Append(stationMap, metar)
        ELSE LET k == CHOOSE j \in at : TRUE
                 existingTime == orZero(stationMap[k].observation_time)
                 newTime == orZero(metar.observation_time)
             IN  IF ZuluNum(newTime) > ZuluNum(existingTime)
                 THEN [stationMap EXCEPT ![k] = metar]
                 ELSE stationMap

RECURSIVE dedupe(_, _)
dedupe(stationMap, metars) ==
    IF metars = <<>> THEN stationMap
    ELSE dedupe(dedupeStep(stationMap, Head(metars)), Tail(metars))

\* batch.map(async ...): the fetch of every state of the group is issued.
issued(state, batch) ==
    [p \in DOMAIN state |-> IF p \in batch THEN "pending" ELSE state[p]]

counted(count, batch) ==
    [p \in DOMAIN count |-> IF p \in batch THEN count[p] + 1 ELSE count[p]]

\* Mutant: the await is over as soon as one fetch of the group is settled.
PromiseAll_any(state, batch) == \E p \in batch : state[p] = "settled"

\* await Promise.all(promises) is over: every fetch of the group is settled.
PromiseAll(state, batch) == \A p \in batch : state[p] = "settled"

\* The request arrives: the first group is issued.
CollectStart ==
    /\ collPc = "idle"
    /\ feed # <<>>
    /\ batchStart' = 0
    /\ fetchState' = issued(fetchState, Batch(0, Len(feed)))
    /\ fetches' = counted(fetches, Batch(0, Len(feed)))
    /\ collPc' = "awaiting"
    /\ UNCHANGED <<feed, results, allMetars, reply>>
    /\ UNCHANGED <<ledgerVars, callVars, clientVars>>

\* The fetch of state p is answered, or rejected: its promise settles.
Settle(p) ==
    /\ collPc = "awaiting"
    /\ fetchState[p] = "pending"
    /\ feed[p].outcome # "silent"
    /\ results' = [results EXCEPT ![p] = partitionResult(feed[p])]
    /\ fetchState' = [fetchState EXCEPT ![p] = "settled"]
    /\ UNCHANGED <<feed, collPc, batchStart, fetches, allMetars, reply>>
    /\ UNCHANGED <<ledgerVars, callVars, clientVars>>

\* The handler resumes after Promise.all: it appends the group's results and
\* either issues the next group or removes the duplicates and answers.
AwaitAll ==
    /\ collPc = "awaiting"
    /\ PromiseAll(fetchState, Batch(batchStart, Len(feed)))
    /\ LET n == Len(feed)
           last == IF batchStart + batchSize < n THEN batchStart + batchSize ELSE n
           gathered == allMetars \o flat(results, batchStart + 1, last)
           next == batchStart + batchSize
       IN  /\ allMetars' = gathered
           /\ batchStart' = next
           /\ IF next < n
              THEN /\ fetchState' = issued(fetchState, Batch(next, n))
                   /\ fetches' = counted(fetches, Batch(next, n))
                   /\ UNCHANGED <<collPc, reply>>
              ELSE /\ reply' = Some([status |-> 200, body |-> dedupe(<<>>, gathered)])
                   /\ collPc' = "returned"
                   /\ UNCHANGED <<fetchState, fetches>>
    /\ UNCHANGED <<feed, results>>
    /\ UNCHANGED <<ledgerVars, callVars, clientVars>>

CollectorNext ==
    \/ CollectStart
    \/ \E p \in DOMAIN feed : Settle(p)
    \/ AwaitAll

\* The collector about to be invoked, the provider answering as `answers`.
CollectorReady(answers) ==
    /\ feed = answers
    /\ collPc = "idle"
    /\ batchStart = 0
    /\ fetchState = [p \in DOMAIN answers |-> "none"]
    /\ fetches = [p \in DOMAIN answers |-> 0]
    /\ results = [p \in DOMAIN answers |-> <<>>]
    /\ allMetars = <<>>
    /\ reply = Null

\* A report of a station with the given day-hour-minute group, or none ("").
ReportOf(icao, zulu) ==
    Awc(Some(icao),
        Some(IF zulu = "" THEN <<icao, "AUTO">> ELSE <<icao, zulu, "AUTO">>),
        Null)

\* A record that lacks its icaoId.
NamelessReport == Awc(Null, Some(<<"171553Z", "AUTO">>), Null)

\* The whole list of states.  Every fetch is answered, some with a failure;
\* or one of them, early or last in the list, is never answered.
WideFeeds ==
    {[p \in 1..NumStates |->
        IF p = silentAt THEN Silent
        ELSE IF failing /\ p % 3 = 0 THEN Rejected
        ELSE IF failing /\ p % 3 = 1 THEN Non2xx
        ELSE IF p = 1 THEN ArrayBody(<<Some(ReportOf("KORD", "171553Z"))>>)
        ELSE ArrayBody(<<>>)] :
            silentAt \in {0, 12, NumStates}, failing \in BOOLEAN}

CollectorInit ==
    /\ \E answers \in WideFeeds : CollectorReady(answers)
    /\ LedgerIdle
    /\ CallIdle
    /\ ClientIdle

CollectorSpec == CollectorInit /\ [][CollectorNext]_vars

\* A short list of states, every answer of the provider tried.
MaxParts == 2

Reports ==
    {ReportOf("KORD", z) : z \in {"", "000000Z", "171553Z"}}
      \cup {ReportOf("KXXX", "171553Z"), NamelessReport}

Bodies ==
    {<<>>}
      \cup {<<item>> : item \in {Null} \cup {Some(r) : r \in Reports}}
      \cup {<<Some(r), Some(s)>> : r, s \in Reports}
      \cup {<<Some(ReportOf("KORD", "171553Z")), Null>>}

Answers == {Rejected, Non2xx, BadJson, NotArray} \cup {ArrayBody(b) : b \in Bodies}

MergeInit ==
    /\ \E answers \in [1..MaxParts -> Answers] : CollectorReady(answers)
    /\ LedgerIdle
    /\ CallIdle
    /\ ClientIdle

MergeSpec == MergeInit /\ [][CollectorNext]_vars

----------------------------------------------------------------------------
(* The client's maintenance store: getStationStats of                      *)
(* src/stores/maintenanceStore.ts over the outage log fetched last.        *)

\* The entry made for a station at its first event.
freshStats(event) ==
    [icao |-> event.icao, stationName |-> event.stationName,
     totalOutages |-> 0, totalDowntimeMinutes |-> 0,
     averageDowntimeMinutes |-> 0, longestOutageMinutes |-> 0,
     firstOutage |-> Some(event.startTime), lastOutage |-> Null,
     currentlyDown |-> FALSE, currentOutageStart |-> Null]

\* Mutant: an event that is still open is not counted as an outage.
tally_closedOnly(stats, event) ==
    LET closed == event.duration # Null
        open == event.endTime = Null
    IN  [stats EXCEPT
           !.totalOutages = IF closed THEN @ + 1 ELSE @,
           !.totalDowntimeMinutes = IF closed THEN @ + Get(event.duration) ELSE @,
           !.longestOutageMinutes =
               IF closed /\ Get(event.duration) > @ THEN Get(event.duration) ELSE @,
           !.firstOutage =
               IF @ = Null \/ event.startTime < Get(@) THEN Some(event.startTime) ELSE @,
           !.lastOutage = Some(event.startTime),
           !.currentlyDown = IF open THEN TRUE ELSE @,
           !.currentOutageStart = IF open THEN Some(event.startTime) ELSE @]

\* The body of the loop over the log, from `stats.totalOutages++` on.
tally(stats, event) ==
    LET closed == event.duration # Null
        open == event.endTime = Null
    IN  [stats EXCEPT
           !.totalOutages = @ + 1,
           !.totalDowntimeMinutes = IF closed THEN @ + Get(event.duration) ELSE @,
           !.longestOutageMinutes =
               IF closed /\ Get(event.duration) > @ THEN Get(event.duration) ELSE @,
           !.firstOutage =
               IF @ = Null \/ event.startTime < Get(@) THEN Some(event.startTime) ELSE @,
           !.lastOutage = Some(event.startTime),
           !.currentlyDown = IF open THEN TRUE ELSE @,
           !.currentOutageStart = IF open THEN Some(event.startTime) ELSE @]

\* One round of the loop.  The Map is kept as the sequence of its values in
\* insertion order, the key of a value being its icao.
statsStep(statsMap, event) ==
    LET at == {k \in DOMAIN statsMap : statsMap[k].icao = event.icao}
    IN  IF at = {} THEN Append(statsMap, tally(freshStats(event), event))
        ELSE LET k == CHOOSE j \in at : TRUE
             IN  [statsMap EXCEPT ![k] = tally(@, event)]

RECURSIVE statsLoop(_, _)
statsLoop(statsMap, log) ==
    IF log = <<>> THEN statsMap
    ELSE statsLoop(statsStep(statsMap, Head(log)), Tail(log))

\* The second loop: the average over the events that have a duration.
withAverage(stats, log) ==
    LET completedOutages ==
          Len(SelectSeq(log, LAMBDA e : e.icao = stats.icao /\ e.duration # Null))
    IN  IF completedOutages > 0
        THEN [stats EXCEPT !.averageDowntimeMinutes =
                               Round(stats.totalDowntimeMinutes, completedOutages)]
        ELSE stats

getStationStats(log) ==
    LET statsMap == statsLoop(<<>>, log)
    IN  [k \in DOMAIN statsMap |-> withAverage(statsMap[k], log)]

CallGetStationStats ==
    /\ ret = Null
    /\ ret' = Some(getStationStats(clientOutageLog))
    /\ UNCHANGED <<arg, ledgerVars, collectorVars, clientVars>>

\* Events as the ledger makes them: opened at one observation, closed or not
\* at another.
openedAt(icao, start) == newEvent(Update(icao, TRUE, start, ZuluOf(start)))

closedAt(icao, start, end) ==
    closeEvent(openedAt(icao, start), Update(icao, FALSE, end, ZuluOf(end)))

\* Outages of KORD of 1, 30 and 90 minutes, one closed by an observation older
\* than its start (0 minutes), two still open; one outage of another station.
StatsEvents ==
    {openedAt("KORD", 0), openedAt("KORD", 7200000),
     closedAt("KORD", 0, 60000), closedAt("KORD", 0, 1800000),
     closedAt("KORD", 1800000, 7200000), closedAt("KORD", 7200000, 0),
     closedAt("KXXX", 0, 1800000)}

\* Longest outage log given to the statistics.
MaxLogLen == 3

StatsInit ==
    /\ clientOutageLog \in SeqsUpTo(StatsEvents, MaxLogLen)
    /\ searchQuery = <<>>
    /\ selectedStation = Null
    /\ requests = <<>>
    /\ StoreIdle
    /\ LedgerIdle
    /\ CollectorIdle
    /\ CallIdle

StatsNext == CallGetStationStats

StatsSpec == StatsInit /\ [][StatsNext]_vars

----------------------------------------------------------------------------
(* The single-station search: handleSearch of src/app/page.tsx and the     *)
(* query of useMetar (src/hooks/useMetar.ts).  A text is the sequence of   *)
(* its characters.                                                         *)

\* The characters typed: a lower-case letter, an upper-case letter, a blank.
Chars == {"k", "O", " "}

toUpperCase(text) == [k \in DOMAIN text |-> IF text[k] = "k" THEN "K" ELSE text[k]]

RECURSIVE trimStart(_)
trimStart(text) ==
    IF text # <<>> /\ Head(text) = " " THEN trimStart(Tail(text)) ELSE text

RECURSIVE trimEnd(_)
trimEnd(text) ==
    IF text # <<>> /\ text[Len(text)] = " "
    THEN trimEnd(SubSeq(text, 1, Len(text) - 1)) ELSE text

trim(text) == trimEnd(trimStart(text))

\* handleSearch(searchQuery): Enter, or a click on the search button.
handleSearch ==
    /\ LET icao == trim(toUpperCase(searchQuery))
       IN  selectedStation' = IF Len(icao) >= 4 THEN Some(icao) ELSE selectedStation
    /\ UNCHANGED <<searchQuery, requests>>
    /\ UNCHANGED <<ledgerVars, collectorVars, callVars, clientOutageLog, storeVars>>

\* `enabled` of useMetar's query.
enabled(icao) == icao # Null /\ Get(icao) # <<>> /\ Len(Get(icao)) >= 4

\* The query of useMetar(selectedStation) runs: fetchMetar sends its request.
fetchMetar ==
    /\ enabled(selectedStation)
    /\ requests = <<>>
    /\ requests' = Append(requests, trim(toUpperCase(Get(selectedStation))))
    /\ UNCHANGED <<searchQuery, selectedStation>>
    /\ UNCHANGED <<ledgerVars, collectorVars, callVars, clientOutageLog, storeVars>>

\* Longest text typed into the search box.
MaxQueryLen == 5

SearchInit ==
    /\ searchQuery \in SeqsUpTo(Chars, MaxQueryLen)
    /\ selectedStation = Null
    /\ requests = <<>>
    /\ clientOutageLog = <<>>
    /\ StoreIdle
    /\ LedgerIdle
    /\ CollectorIdle
    /\ CallIdle

SearchNext ==
    \/ handleSearch
    \/ fetchMetar

SearchSpec == SearchInit /\ [][SearchNext]_vars

----------------------------------------------------------------------------
(* The client's maintenance store and the server: fetchData and            *)
(* updateStationStatuses of src/stores/maintenanceStore.ts, their requests *)
(* answered by GET and POST of the ledger.  A call runs from one await to  *)
(* the next in one step.                                                   *)

\* What the calls of the store leave alone.
storeOthers == <<searchQuery, selectedStation, requests, collectorVars, callVars>>
ledgerButResp == <<store, now, pc, data, snapshot, updates, io, hist, histOf>>

\* `lastFetch && now - lastFetch < 30000`: a number that is 0 is falsy.
throttled(last, clock) ==
    last # Null /\ Get(last) # 0 /\ clock - Get(last) < 30000

\* Mutant: the last fetch is not looked at.
fetchDataEntry_unthrottled(c) ==
    /\ isLoading' = TRUE
    /\ call' = [call EXCEPT ![c] = [@ EXCEPT !.pc = "fetching",
                                             !.startedAt = clientNow]]

\* fetchData up to its await of fetch: it returns at once when the last fetch
\* is less than 30 s old, else it sets isLoading and sends its GET.
fetchDataEntry(c) ==
    IF throttled(lastFetch, clientNow)
    THEN /\ call' = [call EXCEPT ![c] = NoCall]
         /\ UNCHANGED isLoading
    ELSE /\ isLoading' = TRUE
         /\ call' = [call EXCEPT ![c] = [@ EXCEPT !.pc = "fetching",
                                                  !.startedAt = clientNow]]

\* fetchData() is called, by the page's effect after mounting or by anyone.
fetchData ==
    /\ call[2].pc = "idle"
    /\ fetchDataEntry(2)
    /\ UNCHANGED <<clientOutageLog, clientStationStatus, lastFetch, clientNow>>
    /\ UNCHANGED <<ledgerVars, storeOthers>>

\* The server answers the GET of call c.
ServeGet(c, readOk) ==
    /\ call[c].pc = "fetching"
    /\ resp[c] = NoResponse
    /\ GET(c, readOk)

\* fetchData from the end of its await to its end.  The request is answered
\* with the ledger ("ok"), it is answered with a status outside 2xx ("nonOk"),
\* or fetch or res.json() throws ("throws"); the finally clause runs in each
\* case.
fetchDataSettles(c, outcome) ==
    /\ call[c].pc = "fetching"
    /\ outcome = "ok" => resp[c].request = "GET"
    /\ IF outcome = "ok"
       THEN /\ clientStationStatus' = resp[c].body.stationStatus
            /\ clientOutageLog' = resp[c].body.outageLog
            /\ lastFetch' = Some(call[c].startedAt)
       ELSE UNCHANGED <<clientStationStatus, clientOutageLog, lastFetch>>
    /\ isLoading' = FALSE
    /\ call' = [call EXCEPT ![c] = NoCall]
    /\ resp' = [resp EXCEPT ![c] = NoResponse]
    /\ UNCHANGED <<clientNow, ledgerButResp, storeOthers>>

\* updateStationStatuses(updates) up to its await of fetch: the POST is sent.
updateStationStatuses(batch) ==
    /\ call[1].pc = "idle"
    /\ Len(hist) < MaxClientPosts
    /\ call' = [call EXCEPT ![1] = [NoCall EXCEPT !.pc = "posting", !.batch = batch]]
    /\ UNCHANGED <<clientOutageLog, clientStationStatus, isLoading, lastFetch, clientNow>>
    /\ UNCHANGED <<ledgerVars, storeOthers>>

\* The server works on the POST of updateStationStatuses.
ServePostLoad(readOk) ==
    /\ call[1].pc = "posting"
    /\ resp[1] = NoResponse
    /\ PostLoad(1, call[1].batch, readOk, MaxClientPosts)

ServePostSave(writeOk) ==
    /\ call[1].pc = "posting"
    /\ PostSave(1, writeOk)

\* updateStationStatuses from the end of its await on: with an answer that is
\* ok it calls fetchData, which runs up to its own await; with any other
\* answer, or when fetch throws, it is over.
updateSettles(outcome) ==
    /\ call[1].pc = "posting"
    /\ pc[1] = "idle"
    /\ outcome = "response" => resp[1].request = "POST"
    /\ IF outcome = "response" /\ resp[1].status = 200
       THEN fetchDataEntry(1)
       ELSE /\ call' = [call EXCEPT ![1] = NoCall]
            /\ UNCHANGED isLoading
    /\ resp' = [resp EXCEPT ![1] = NoResponse]
    /\ UNCHANGED <<clientOutageLog, clientStationStatus, lastFetch, clientNow>>
    /\ UNCHANGED <<ledgerButResp, storeOthers>>

\* A quarter of a minute passes in the browser.
ClientTick ==
    /\ clientNow < 15000 * (MaxClientTicks + 1)
    /\ clientNow' = clientNow + 15000
    /\ UNCHANGED <<clientOutageLog, clientStationStatus, isLoading, lastFetch, call>>
    /\ UNCHANGED <<ledgerVars, storeOthers>>

\* What the page reports: KORD down, KORD up again.
ClientBatches == {<<Kord(TRUE, 0)>>, <<Kord(FALSE, 90000)>>}

StoreNext ==
    \/ fetchData
    \/ \E c \in Calls, readOk \in BOOLEAN : ServeGet(c, readOk)
    \/ \E c \in Calls, outcome \in {"ok", "nonOk", "throws"} : fetchDataSettles(c, outcome)
    \/ \E batch \in ClientBatches : updateStationStatuses(batch)
    \/ \E readOk \in BOOLEAN : ServePostLoad(readOk)
    \/ \E writeOk \in BOOLEAN : ServePostSave(writeOk)
    \/ \E outcome \in {"response", "throws"} : updateSettles(outcome)
    \/ ClientTick

StoreSpec == Init /\ [][StoreNext]_vars

\* The browser settles every fetch, with an answer or with an error, and the
\* server answers the requests it is sent.
StoreFairSpec ==
    /\ StoreSpec
    /\ \A c \in Calls :
          WF_vars(\E outcome \in {"ok", "nonOk", "throws"} : fetchDataSettles(c, outcome))

----------------------------------------------------------------------------
(* The ledger at its cap with an outage that never ended: KORD went down   *)
(* and has stayed down while KXXX went down and recovered again and again. *)

\* The ledger after KORD went down at 0 and KXXX had n - 1 outages of a minute.
staleLedger(n) ==
    [stationStatus |->
        [s \in Stations |->
            Some([hasFlag |-> s = "KORD", lastSeen |-> 0,
                  lastObsTime |-> IF s = "KORD" THEN 0 ELSE 120000 * n + 60000,
                  lastObsTimeZulu |-> IF s = "KORD" THEN ZuluOf(0) ELSE ZuluOf(60000),
                  stationName |-> NameOf(s)])],
     outageLog |->
        [i \in 1..n |->
            IF i = 1 THEN openedAt("KORD", 0)
            ELSE closedAt("KXXX", 120000 * i, 120000 * i + 60000)]]

StaleInit ==
    /\ store \in {Some(staleLedger(n)) :
                    n \in (MAX_OUTAGE_EVENTS - 1)..MAX_OUTAGE_EVENTS}
    /\ now = 0
    /\ pc = [h \in Handlers |-> "idle"]
    /\ data = [h \in Handlers |-> Null]
    /\ snapshot = [h \in Handlers |-> Null]
    /\ updates = [h \in Handlers |-> <<>>]
    /\ resp = [h \in Handlers |-> NoResponse]
    /\ io = [h \in Handlers |-> "none"]
    /\ hist = <<>>
    /\ histOf = [h \in Handlers |-> <<>>]
    /\ CollectorIdle
    /\ CallIdle
    /\ ClientIdle

StaleNext ==
    \/ \E b \in SingleBatches : PostLoad(1, b, TRUE, MaxStalePosts)
    \/ \E writeOk \in BOOLEAN : PostSave(1, writeOk)

StaleSpec == StaleInit /\ [][StaleNext]_vars

----------------------------------------------------------------------------
(* Properties *)

\* The ledger a reader of the store sees now.
Ledger == getData(store, TRUE)

\* The events of one station, in log order.
EventsOf(log, icao) == SelectSeq(log, LAMBDA e : e.icao = icao)

OpenEvents(log, icao) ==
    {i \in DOMAIN log : log[i].icao = icao /\ log[i].endTime = Null}

\* The updates for one station among the batches the ledger is derived from.
RECURSIVE Flatten(_)
Flatten(batches) ==
    IF batches = <<>> THEN <<>> ELSE Head(batches) \o Flatten(Tail(batches))

UpdatesOf(icao) == SelectSeq(Flatten(hist), LAMBDA u : u.icao = icao)

FlagsOf(icao) == [i \in DOMAIN UpdatesOf(icao) |-> UpdatesOf(icao)[i].hasFlag]

\* r is n/d rounded to the nearest integer, halves upwards.
IsRounded(r, n, d) == (2 * r - 1) * d <= 2 * n /\ 2 * n < (2 * r + 1) * d

\* m is the duration in minutes of an outage from start to end, never negative.
IsDuration(m, start, end) ==
    \E r \in -4..4 : /\ IsRounded(r, end - start, 60000)
                     /\ m = IF r > 0 THEN r ELSE 0

\* C1: in every persisted ledger each station has at most one open event
\* (endTime = null), whatever the interleaving of POSTs and DELETEs.
C1_AtMostOneOpen ==
    \A s \in Stations : Cardinality(OpenEvents(Ledger.outageLog, s)) <= 1

\* C1 witness: a station flagged by two successive persisted batches holds
\* exactly one open event.
C1_Witness ==
    \E s \in Stations :
        /\ Len(UpdatesOf(s)) >= 2
        /\ UpdatesOf(s)[Len(UpdatesOf(s))].hasFlag
        /\ UpdatesOf(s)[Len(UpdatesOf(s)) - 1].hasFlag
        /\ Cardinality(OpenEvents(Ledger.outageLog, s)) = 1

\* C2: the flags false, true, true, false for one station, posted one by one
\* from the empty ledger, leave exactly one event for it, which starts at the
\* first true update's obsTime and ends at the final false update's obsTime.
C2_OneEventForRepeatedFlag ==
    \A s \in Stations :
        FlagsOf(s) = <<FALSE, TRUE, TRUE, FALSE>> =>
            LET ev == EventsOf(Ledger.outageLog, s)
                us == UpdatesOf(s)
            IN  /\ Len(ev) = 1
                /\ ev[1].startTime = us[2].obsTime
                /\ ev[1].startTimeZulu = us[2].observationTime
                /\ ev[1].endTime = Some(us[4].obsTime)

\* C2 witness: such a run in which the two true updates differ in time.
C2_Witness ==
    \E s \in Stations :
        /\ FlagsOf(s) = <<FALSE, TRUE, TRUE, FALSE>>
        /\ UpdatesOf(s)[2].obsTime # UpdatesOf(s)[3].obsTime
        /\ Len(EventsOf(Ledger.outageLog, s)) = 1

\* C3: from a ledger without a status for KORD, KORD flagged at T1 and then
\* unflagged at T2 > T1 yields exactly one event for KORD, closed, with
\* startTime T1, endTime T2 and duration round((T2 - T1) / 60000).
C3_FlagThenClear ==
    LET us == UpdatesOf("KORD")
        ev == EventsOf(Ledger.outageLog, "KORD")
    IN  (FlagsOf("KORD") = <<TRUE, FALSE>> /\ us[2].obsTime > us[1].obsTime) =>
            /\ Len(ev) = 1
            /\ ev[1].startTime = us[1].obsTime
            /\ ev[1].endTime = Some(us[2].obsTime)
            /\ ev[1].duration # Null
            /\ IsRounded(Get(ev[1].duration), us[2].obsTime - us[1].obsTime, 60000)

\* C3 witness: KORD flagged and then cleared 90 s later, a duration of 2.
C3_Witness ==
    /\ FlagsOf("KORD") = <<TRUE, FALSE>>
    /\ UpdatesOf("KORD")[2].obsTime > UpdatesOf("KORD")[1].obsTime
    /\ Len(EventsOf(Ledger.outageLog, "KORD")) = 1
    /\ EventsOf(Ledger.outageLog, "KORD")[1].duration = Some(2)

\* C4 as claimed: a station whose first update ever is flagged gets no event.
C4_Original ==
    \A s \in Stations :
        FlagsOf(s) = <<TRUE>> => EventsOf(Ledger.outageLog, s) = <<>>

\* C4 amended: a station whose first update ever is flagged gets exactly one
\* event, open, that starts at this update's observation time, and its status
\* is recorded as flagged.
C4_FirstSeenDownOpens ==
    \A s \in Stations :
        FlagsOf(s) = <<TRUE>> =>
            LET ev == EventsOf(Ledger.outageLog, s)
                u == UpdatesOf(s)[1]
            IN  /\ Len(ev) = 1
                /\ ev[1].startTime = u.obsTime
                /\ ev[1].startTimeZulu = u.observationTime
                /\ ev[1].endTime = Null
                /\ ev[1].endTimeZulu = Null
                /\ ev[1].duration = Null
                /\ Ledger.stationStatus[s] # Null
                /\ Get(Ledger.stationStatus[s]).hasFlag

\* C4 witness: a persisted ledger whose only update for a station is flagged.
C4_Witness ==
    \E s \in Stations :
        /\ FlagsOf(s) = <<TRUE>>
        /\ Len(EventsOf(Ledger.outageLog, s)) = 1

\* C5: the flags true, false, true, false for one station yield two events
\* for it, both closed, each with the start, end and duration of its own
\* cycle; the second cycle leaves the first event as it was.
C5_TwoCycles ==
    \A s \in Stations :
        FlagsOf(s) = <<TRUE, FALSE, TRUE, FALSE>> =>
            LET ev == EventsOf(Ledger.outageLog, s)
                us == UpdatesOf(s)
            IN  /\ Len(ev) = 2
                /\ \A k \in 1..2 :
                      /\ ev[k].startTime = us[2 * k - 1].obsTime
                      /\ ev[k].startTimeZulu = us[2 * k - 1].observationTime
                      /\ ev[k].endTime = Some(us[2 * k].obsTime)
                      /\ ev[k].endTimeZulu = Some(us[2 * k].observationTime)
                      /\ ev[k].duration # Null
                      /\ IsDuration(Get(ev[k].duration),
                                    us[2 * k - 1].obsTime, us[2 * k].obsTime)

\* C5 witness: two cycles of different durations.
C5_Witness ==
    \E s \in Stations :
        /\ FlagsOf(s) = <<TRUE, FALSE, TRUE, FALSE>>
        /\ Len(EventsOf(Ledger.outageLog, s)) = 2
        /\ EventsOf(Ledger.outageLog, s)[1].duration = Some(2)
        /\ EventsOf(Ledger.outageLog, s)[2].duration = Some(0)

\* The greatest element of a non-empty set of numbers.
Greatest(S) == CHOOSE x \in S : \A y \in S : y <= x

\* C6: an update with flag false for a station stored as flagged closes the
\* most recent open event of that station and no other: endTime and
\* endTimeZulu come from the update, duration is
\* max(0, round((obsTime - startTime) / 60000)); every other event is kept.
C6_CloseOnRecovery ==
    \A h \in Handlers :
        (/\ pc[h] = "saving"
         /\ Len(updates[h]) = 1
         /\ ~updates[h][1].hasFlag
         /\ Get(snapshot[h]).stationStatus[updates[h][1].icao] # Null
         /\ Get(Get(snapshot[h]).stationStatus[updates[h][1].icao]).hasFlag) =>
            LET u == updates[h][1]
                before == Get(snapshot[h]).outageLog
                after == Get(data[h]).outageLog
                open == OpenEvents(before, u.icao)
            IN  /\ Len(after) = Len(before)
                /\ \A i \in DOMAIN before :
                      IF open # {} /\ i = Greatest(open)
                      THEN /\ after[i].endTime = Some(u.obsTime)
                           /\ after[i].endTimeZulu = Some(u.observationTime)
                           /\ after[i].duration # Null
                           /\ IsDuration(Get(after[i].duration),
                                         before[i].startTime, u.obsTime)
                           /\ after[i] = [before[i] EXCEPT
                                            !.endTime = after[i].endTime,
                                            !.endTimeZulu = after[i].endTimeZulu,
                                            !.duration = after[i].duration]
                      ELSE after[i] = before[i]

\* C6 witness: an open event is closed by an observation earlier than its
\* start, with duration 0, next to another event that is left alone.
C6_Witness ==
    \E h \in Handlers :
        /\ pc[h] = "saving"
        /\ Len(updates[h]) = 1
        /\ ~updates[h][1].hasFlag
        /\ LET u == updates[h][1]
               before == Get(snapshot[h]).outageLog
               open == OpenEvents(before, u.icao)
           IN  /\ open # {}
               /\ Len(before) >= 2
               /\ u.obsTime < before[Greatest(open)].startTime
               /\ Get(data[h]).outageLog[Greatest(open)].duration = Some(0)

\* C7: the log POST persists has at most 1000 events, and when the batch
\* pushed it above 1000 it is the newest 1000 of them in their order.
C7_TrimKeepsNewest ==
    /\ Len(Ledger.outageLog) <= 1000
    /\ \A h \in Handlers :
          pc[h] = "saving" =>
            LET full == applyUpdates(Get(snapshot[h]), updates[h], now).outageLog
                kept == Get(data[h]).outageLog
            IN  /\ Len(kept) = IF Len(full) > 1000 THEN 1000 ELSE Len(full)
                /\ \A i \in 1..Len(kept) :
                      kept[i] = full[Len(full) - Len(kept) + i]

\* C7 witness: a batch took the log to 1002 events and the persisted log
\* starts at what was the third event.
C7_Witness ==
    /\ Len(Ledger.outageLog) = 1000
    /\ Ledger.outageLog[1] = closedEvent(3)
    /\ Ledger.outageLog[1000].endTime = Null

\* C8: when saveData fails, POST answers with a failure and the persisted
\* ledger is what it was.
C8_WriteFailure ==
    [][\A h \in Handlers :
          (pc[h] = "saving" /\ pc'[h] = "idle" /\ io'[h] = "error") =>
              /\ resp'[h].request = "POST"
              /\ resp'[h].status = 500
              /\ store' = store]_vars

\* C8 witness: a POST that would have changed a stored ledger was answered
\* with the persistence failure.
C8_Witness ==
    \E h \in Handlers :
        /\ resp[h] = Failure("POST", "Failed to persist data")
        /\ io[h] = "error"
        /\ store # Null
        /\ Ledger.outageLog # <<>>

\* C9: a GET whose read of the store throws or finds no blob answers 200
\* with the empty ledger.
C9_ReadFailureGivesEmpty ==
    \A h \in Handlers :
        (resp[h].request = "GET" /\ io[h] \in {"error", "absent"}) =>
            /\ resp[h].status = 200
            /\ resp[h].body = EmptyLedger

\* C9 witness: a GET answered after a read error while a ledger with events
\* is stored.
C9_Witness ==
    \E h \in Handlers :
        /\ resp[h].request = "GET"
        /\ io[h] = "error"
        /\ store # Null
        /\ Ledger.outageLog # <<>>

\* C10: a POST whose write succeeds replaces the persisted ledger by the one
\* it computed from its own earlier read, whatever was written in between:
\* for the stations it does not update, the statuses and events it read.
C10_LastWriteWins ==
    [][\A h \in Handlers :
          (pc[h] = "saving" /\ pc'[h] = "idle" /\ io'[h] = "ok") =>
              /\ resp'[h] = Ok("POST")
              /\ store' = data[h]
              /\ \A s \in Stations :
                    (\A i \in DOMAIN updates[h] : updates[h][i].icao # s) =>
                        /\ Get(store').stationStatus[s]
                              = Get(snapshot[h]).stationStatus[s]
                        /\ EventsOf(Get(store').outageLog, s)
                              = EventsOf(Get(snapshot[h]).outageLog, s)]_vars

\* C10 witness: one POST has been answered with success and its event is
\* persisted, while another POST that read before that write is about to
\* save a ledger without it.
C10_Witness ==
    \E h1, h2 \in Handlers, s \in Stations :
        /\ h1 # h2
        /\ resp[h1] = Ok("POST")
        /\ pc[h2] = "saving"
        /\ io[h2] = "absent"
        /\ \A i \in DOMAIN updates[h2] : updates[h2][i].icao # s
        /\ Ledger.stationStatus[s] # Null
        /\ EventsOf(Ledger.outageLog, s) # <<>>
        /\ Get(data[h2]).stationStatus[s] = Null
        /\ EventsOf(Get(data[h2]).outageLog, s) = <<>>

\* C14: for every visibility and every sequence of cloud layers,
\* determineFltCat returns the first match of: LIFR if the ceiling is below
\* 500 or the visibility below 1; IFR if below 1000 or below 3; MVFR if below
\* 3000 or at most 5; else VFR.  The ceiling is the lowest base among the BKN,
\* OVC and VV layers (none: infinite, so below nothing) and the visibility is 10
\* when none or no number is supplied.  Ceilings of exactly 500, 1000 and 3000
\* with visibility 10 give IFR, MVFR and VFR, and visibility exactly 5 with a
\* ceiling of 3000 or more gives MVFR.
CeilingBases(clouds) ==
    IF clouds = Null THEN {}
    ELSE {Get(clouds)[k].base :
            k \in {j \in DOMAIN Get(clouds) :
                     Get(clouds)[j].cover \in {"BKN", "OVC", "VV"}}}

Least(S) == CHOOSE x \in S : \A y \in S : x <= y

C14_FlightCategoryTable ==
    (arg # Null /\ ret # Null) =>
        (Get(arg).fn = "determineFltCat" =>
            LET bases == CeilingBases(Get(arg).clouds)
                below(h) == \E b \in bases : b < h
                vis == IF Get(arg).visib.type = "number"
                       THEN Get(arg).visib.value ELSE SM(10)
                cat == Get(ret)
            IN  /\ cat = "LIFR" <=> (below(500) \/ vis < SM(1))
                /\ cat = "IFR" <=>
                      /\ ~(below(500) \/ vis < SM(1))
                      /\ (below(1000) \/ vis < SM(3))
                /\ cat = "MVFR" <=>
                      /\ ~(below(1000) \/ vis < SM(3))
                      /\ (below(3000) \/ vis <= SM(5))
                /\ cat = "VFR" <=> ~(below(3000) \/ vis <= SM(5))
                /\ (bases # {} /\ vis = SM(10)) =>
                      /\ Least(bases) = 500 => cat = "IFR"
                      /\ Least(bases) = 1000 => cat = "MVFR"
                      /\ Least(bases) = 3000 => cat = "VFR"
                /\ (vis = SM(5) /\ ~below(3000)) => cat = "MVFR")

\* Visibility exactly 5 under a ceiling of exactly 3000, a lower scattered
\* layer listed after it: MVFR.
C14_Witness ==
    /\ arg = Some([fn |-> "determineFltCat", visib |-> NumberVisib(SM(5)),
                   clouds |-> Some(<<[cover |-> "BKN", base |-> 3000],
                                     [cover |-> "SCT", base |-> 499]>>)])
    /\ ret = Some("MVFR")

\* C15 as stated: every observation the decoder produces carries one of the
\* four categories, whatever the provider record carries, and the category of
\* a forecast period is the one computed from its visibility and clouds.
C15_Original ==
    (arg # Null /\ ret # Null) =>
        /\ Get(arg).fn = "transformMetar" =>
              Get(ret).flight_category \in {"VFR", "MVFR", "IFR", "LIFR"}
        /\ Get(arg).fn = "transformTaf" =>
              \A k \in DOMAIN Get(ret).forecasts :
                  /\ Get(ret).forecasts[k].flight_category
                        \in {"VFR", "MVFR", "IFR", "LIFR"}
                  /\ Get(ret).forecasts[k].flight_category =
                        determineFltCat(Get(arg).taf.fcsts[k].visib,
                                        Get(arg).taf.fcsts[k].clouds)

\* The observations of every state's result, in the order of the list, and
\* the collector's answer.
Gathered == flat([p \in DOMAIN feed |-> partitionResult(feed[p])], 1, Len(feed))

Body == Get(reply).body

OfStation(metars, id) == {k \in DOMAIN metars : metars[k].icao = id}

StationIds(metars) == {metars[k].icao : k \in DOMAIN metars} \ {Null}

\* C11 as stated: the answer holds exactly one observation for every station
\* id that occurs in a state's result, and the one retained is an observation
\* of that station whose day-hour-minute string is greatest among the
\* station's observations, an empty string sorting below every other.
RankEmptyLowest(observationTime) ==
    IF observationTime = "" THEN -1 ELSE ZuluNum(observationTime)

C11_Original ==
    reply # Null =>
        /\ StationIds(Body) = StationIds(Gathered)
        /\ \A id \in StationIds(Gathered) :
              /\ Cardinality(OfStation(Body, id)) = 1
              /\ \A k \in OfStation(Body, id) :
                    /\ \E j \in OfStation(Gathered, id) : Gathered[j] = Body[k]
                    /\ \A j \in OfStation(Gathered, id) :
                          RankEmptyLowest(Gathered[j].observation_time)
                            <= RankEmptyLowest(Body[k].observation_time)

\* C11, amended: the answer holds exactly one observation for every station
\* id that occurs in a state's result; an empty day-hour-minute string counts
\* as "000000Z", and the one retained is the first observation of the station,
\* in the order of the list, among those whose string is greatest.
RankEmptyAsZero(observationTime) ==
    IF observationTime = "" THEN ZuluNum("000000Z") ELSE ZuluNum(observationTime)

C11_KeepsFirstOfGreatest ==
    reply # Null =>
        /\ StationIds(Body) = StationIds(Gathered)
        /\ \A id \in StationIds(Gathered) :
              /\ Cardinality(OfStation(Body, id)) = 1
              /\ \A k \in OfStation(Body, id) :
                    LET greatest ==
                          {j \in OfStation(Gathered, id) :
                             \A i \in OfStation(Gathered, id) :
                                RankEmptyAsZero(Gathered[i].observation_time)
                                  <= RankEmptyAsZero(Gathered[j].observation_time)}
                    IN  Body[k] = Gathered[Least(greatest)]

\* A station reported by two states, the later report the fresher one and the
\* one retained.
C11_Witness ==
    /\ reply # Null
    /\ \E id \in StationIds(Gathered) :
          /\ Cardinality(OfStation(Gathered, id)) >= 2
          /\ \E p, q \in DOMAIN feed :
                /\ p < q
                /\ \E k \in DOMAIN partitionResult(feed[p]) :
                      partitionResult(feed[p])[k].icao = id
                /\ \E k \in DOMAIN partitionResult(feed[q]) :
                      partitionResult(feed[q])[k].icao = id
          /\ \A k \in OfStation(Body, id) :
                Body[k] # Gathered[Least(OfStation(Gathered, id))]

\* C12: whichever states fail (request rejected, status outside 2xx, body no
\* JSON, no array, or an array with an item that cannot be decoded), the
\* collector answers 200 with the observations of the states that succeeded,
\* duplicates removed: a failed state contributes nothing.
Succeeded(r) ==
    /\ r.outcome = "array"
    /\ \A k \in DOMAIN Get(r.body) : Get(r.body)[k] # Null

DecodedOf(r) == [k \in DOMAIN Get(r.body) |-> transformMetar(Get(Get(r.body)[k]))]

C12_FailedStatesContributeNothing ==
    reply # Null =>
        /\ Get(reply).status = 200
        /\ LET good == SelectSeq(feed, Succeeded)
           IN  Body = dedupe(<<>>, flat([p \in DOMAIN good |-> DecodedOf(good[p])],
                                        1, Len(good)))

\* One state failed with a partly decodable array, another succeeded, and the
\* answer holds the observations of the latter only.
C12_Witness ==
    /\ reply # Null
    /\ \E p, q \in DOMAIN feed :
          /\ feed[p] = ArrayBody(<<Some(ReportOf("KORD", "171553Z")), Null>>)
          /\ feed[q] = ArrayBody(<<Some(ReportOf("KXXX", "171553Z"))>>)
    /\ Body = <<transformMetar(ReportOf("KXXX", "171553Z"))>>

\* C13 as stated: no observation of the answer lacks its station id, and the
\* other records of a state that sent a record without id are still there.
C13_Original ==
    reply # Null =>
        /\ \A k \in DOMAIN Body : Body[k].icao # Null
        /\ \A p \in DOMAIN feed :
              Succeeded(feed[p]) =>
                  \A k \in DOMAIN DecodedOf(feed[p]) :
                      DecodedOf(feed[p])[k].icao # Null =>
                          OfStation(Body, DecodedOf(feed[p])[k].icao) # {}

\* C19 as stated: an invocation of the collector always returns.  Every step
\* of the collector moves it forward (a fetch settles, a group ends), so it
\* returns exactly if it is never left, before its answer, without a step to
\* take.
C19_Original == collPc = "awaiting" => ENABLED CollectorNext

\* C20: at most 10 fetches are in flight at any moment; the states are taken
\* in list order in groups of 10; no fetch of a group is issued before every
\* fetch of the groups before it has settled; and no state is fetched twice,
\* every state exactly once by the time the collector answers.
InFlight == {p \in DOMAIN fetchState : fetchState[p] = "pending"}

GroupOf(p) == (p - 1) \div 10

C20_GroupsOfTen ==
    /\ Cardinality(InFlight) <= 10
    /\ \A q \in DOMAIN fetches :
          fetches[q] > 0 =>
              /\ \A p \in 1..(10 * GroupOf(q)) : fetchState[p] = "settled"
              /\ \A p \in DOMAIN fetches : GroupOf(p) = GroupOf(q) => fetches[p] > 0
    /\ \A p \in DOMAIN fetches : fetches[p] <= 1
    /\ reply # Null => \A p \in DOMAIN fetches : fetches[p] = 1

\* The last group, of one state, in flight after five groups of ten, some of
\* whose fetches failed.
C20_Witness ==
    /\ collPc = "awaiting"
    /\ Len(feed) = 51
    /\ InFlight = {51}
    /\ \A p \in 1..50 : fetchState[p] = "settled" /\ fetches[p] = 1
    /\ feed[3] = Rejected

\* The statistics returned for a station, if any.
StatsOf(icao) == SelectSeq(Get(ret), LAMBDA st : st.icao = icao)

RECURSIVE SumOfDurations(_)
SumOfDurations(events) ==
    IF events = <<>> THEN 0
    ELSE Get(Head(events).duration) + SumOfDurations(Tail(events))

\* C16: for every outage log and every station in it, getStationStats returns
\* one entry whose totalOutages is the number of the station's events, open
\* ones included, whose totalDowntimeMinutes is the sum of the durations of
\* its closed events, whose averageDowntimeMinutes is that sum divided by the
\* number of closed events and rounded, or 0 without a closed event, and whose
\* longestOutageMinutes is the longest of those durations, or 0.  Closed events
\* of 30 and 90 minutes give average 60, longest 90 and 2 outages.
C16_StationStats ==
    (ret # Null /\ arg = Null) =>
        \A icao \in {clientOutageLog[k].icao : k \in DOMAIN clientOutageLog} :
            LET events == EventsOf(clientOutageLog, icao)
                closed == SelectSeq(events, LAMBDA e : e.duration # Null)
                total == SumOfDurations(closed)
                durations == {Get(closed[k].duration) : k \in DOMAIN closed}
            IN  /\ Len(StatsOf(icao)) = 1
                /\ LET st == StatsOf(icao)[1]
                   IN  /\ st.totalOutages = Len(events)
                       /\ st.totalDowntimeMinutes = total
                       /\ IF closed = <<>>
                          THEN /\ st.averageDowntimeMinutes = 0
                               /\ st.longestOutageMinutes = 0
                          ELSE /\ IsRounded(st.averageDowntimeMinutes, total, Len(closed))
                               /\ st.longestOutageMinutes = Greatest(durations)
                       /\ (Len(events) = 2 /\ Len(closed) = 2 /\ durations = {30, 90}) =>
                             /\ st.averageDowntimeMinutes = 60
                             /\ st.longestOutageMinutes = 90
                             /\ st.totalOutages = 2

\* Outages of 1 and 30 minutes and one still open: 3 outages, 31 minutes, an
\* average of 15.5 rounded to 16.
C16_Witness ==
    /\ ret # Null
    /\ arg = Null
    /\ clientOutageLog = <<closedAt("KORD", 0, 60000), openedAt("KORD", 7200000),
                           closedAt("KORD", 0, 1800000)>>
    /\ StatsOf("KORD")[1].totalOutages = 3
    /\ StatsOf("KORD")[1].totalDowntimeMinutes = 31
    /\ StatsOf("KORD")[1].averageDowntimeMinutes = 16
    /\ StatsOf("KORD")[1].longestOutageMinutes = 30

\* C17 as stated: firstOutage is the least and lastOutage the greatest
\* startTime of the station's events, in whatever order the log holds them.
C17_Original ==
    (ret # Null /\ arg = Null) =>
        \A icao \in {clientOutageLog[k].icao : k \in DOMAIN clientOutageLog} :
            LET starts == {clientOutageLog[k].startTime :
                              k \in OfStation(clientOutageLog, icao)}
            IN  \A k \in DOMAIN StatsOf(icao) :
                    /\ StatsOf(icao)[k].firstOutage = Some(Least(starts))
                    /\ StatsOf(icao)[k].lastOutage = Some(Greatest(starts))

\* C18 as stated: a request is sent for an identifier of exactly 4 characters
\* only; a search for a shorter or longer one sends nothing.
C18_Original ==
    /\ \A k \in DOMAIN requests : Len(requests[k]) = 4
    /\ Len(trim(toUpperCase(searchQuery))) # 4 => requests = <<>>

\* The ledger after the updates of a request body are sent one by one, each
\* as the only update of its own POST.
RECURSIVE OneByOne(_, _, _)
OneByOne(ledger, batch, clock) ==
    IF batch = <<>> THEN ledger
    ELSE OneByOne(processBatch(ledger, <<Head(batch)>>, clock), Tail(batch), clock)

\* C21: a POST applies the updates of its body one by one, in the order given,
\* each against the status the one before left: the ledger it saves is the one
\* that separate POSTs of one update each would save, the persisted ledger is
\* the one-by-one run of every update persisted so far, and the status of a
\* station carries the flag of its last update.  The flags true, false, true
\* for a station that is up add one closed and one open event.
C21_BatchIsSequence ==
    /\ store # Null => Ledger = OneByOne(EmptyLedger, Flatten(hist), 0)
    /\ pc[1] = "saving" =>
          LET before == Get(snapshot[1])
              after == Get(data[1])
          IN  /\ after = OneByOne(before, updates[1], now)
              /\ \A s \in Stations :
                    LET mine == SelectSeq(updates[1], LAMBDA u : u.icao = s)
                        flags == [k \in DOMAIN mine |-> mine[k].hasFlag]
                        old == EventsOf(before.outageLog, s)
                        new == EventsOf(after.outageLog, s)
                    IN  /\ mine # <<>> =>
                              /\ after.stationStatus[s] # Null
                              /\ Get(after.stationStatus[s]).hasFlag = flags[Len(flags)]
                        /\ (flags = <<TRUE, FALSE, TRUE>> /\ OpenEvents(before.outageLog, s) = {}
                              /\ (before.stationStatus[s] = Null
                                    \/ ~Get(before.stationStatus[s]).hasFlag)) =>
                              /\ Len(new) = Len(old) + 2
                              /\ new[Len(old) + 1].endTime # Null
                              /\ new[Len(old) + 2].endTime = Null

\* KORD, up after an earlier outage, is reported down, up and down in one
\* request body.
C21_Witness ==
    /\ pc[1] = "saving"
    /\ [k \in DOMAIN updates[1] |-> updates[1][k].hasFlag] = <<TRUE, FALSE, TRUE>>
    /\ Get(snapshot[1]).stationStatus["KORD"] # Null
    /\ Len(EventsOf(Get(snapshot[1]).outageLog, "KORD")) = 1
    /\ Len(EventsOf(Get(data[1]).outageLog, "KORD")) = 3

\* The ledger a POST that read `read` holds after the first k updates of `body`.
AfterUpdates(read, body, k, clock) == applyUpdates(read, SubSeq(body, 1, k), clock)

\* The k-th update of the body of handler h carries the flag the ledger holds
\* for its station (no status counting as false).
Unchanging(h, k) ==
    wasDown(AfterUpdates(Get(snapshot[h]), updates[h], k - 1, now), updates[h][k].icao)
       = updates[h][k].hasFlag

\* The time a POST about to save read from the clock: the lastSeen it gave to
\* the station of its last update.
ClockOf(h) ==
    Get(Get(data[h]).stationStatus[updates[h][Len(updates[h])].icao]).lastSeen

\* C22: an update whose flag equals the stored flag of its station (true and
\* true, false and false, or false for a station without a status) leaves the
\* outage log as it is and every other station's status as it is; only the
\* status of its own station is rewritten, with the time of the request and the
\* observation time, Zulu time and name of the update.
C22_SameFlagTouchesStatusOnly ==
    \A h \in Handlers :
        (pc[h] = "saving" /\ updates[h] # <<>>) =>
           LET read == Get(snapshot[h])
               body == updates[h]
               clock == ClockOf(h)
           IN  /\ clock \in 0..now
               /\ Get(data[h]).stationStatus =
                     AfterUpdates(read, body, Len(body), clock).stationStatus
               /\ \A k \in DOMAIN body :
                     LET u == body[k]
                         before == AfterUpdates(read, body, k - 1, clock)
                         after == AfterUpdates(read, body, k, clock)
                     IN  wasDown(before, u.icao) = u.hasFlag =>
                            /\ after.outageLog = before.outageLog
                            /\ \A s \in Stations \ {u.icao} :
                                  after.stationStatus[s] = before.stationStatus[s]
                            /\ after.stationStatus[u.icao] =
                                  Some([hasFlag |-> u.hasFlag, lastSeen |-> clock,
                                        lastObsTime |-> u.obsTime,
                                        lastObsTimeZulu |-> u.observationTime,
                                        stationName |-> u.stationName])

\* A station already down is reported down again, later and with a newer
\* observation: its status is rewritten, the log stays.
C22_Witness ==
    /\ pc[1] = "saving"
    /\ Len(updates[1]) = 1
    /\ Unchanging(1, 1)
    /\ updates[1][1].hasFlag
    /\ Get(snapshot[1]).stationStatus[updates[1][1].icao] # Null
    /\ Get(data[1]).stationStatus # Get(snapshot[1]).stationStatus
    /\ Get(data[1]).outageLog = Get(snapshot[1]).outageLog
    /\ Get(data[1]).outageLog # <<>>

\* C23: in every persisted ledger a station with an open event is stored as
\* flagged, and, no event having been dropped by the trim, a station stored as
\* flagged has exactly one open event.
C23_OpenEventIffFlagged ==
    \A s \in Stations :
        LET status == Ledger.stationStatus[s]
            open == OpenEvents(Ledger.outageLog, s)
        IN  /\ open # {} => status # Null /\ Get(status).hasFlag
            /\ (status # Null /\ Get(status).hasFlag) => Cardinality(open) = 1

\* KORD went down, recovered and went down again within the persisted
\* history: it is stored as flagged and its second event is the open one.
C23_Witness ==
    /\ store # Null
    /\ Len(EventsOf(Ledger.outageLog, "KORD")) = 2
    /\ Get(Ledger.stationStatus["KORD"]).hasFlag
    /\ Cardinality(OpenEvents(Ledger.outageLog, "KORD")) = 1
    /\ Ledger.stationStatus["KXXX"] # Null
    /\ ~Get(Ledger.stationStatus["KXXX"]).hasFlag

\* A station stored as flagged whose events are all closed, or gone.
Orphaned(ledger, icao) ==
    /\ ledger.stationStatus[icao] # Null
    /\ Get(ledger.stationStatus[icao]).hasFlag
    /\ OpenEvents(ledger.outageLog, icao) = {}

C25_ReadFailureThenWriteLosesLedger ==
    [][(pc[1] = "saving" /\ io[1] = "error" /\ pc'[1] = "idle" /\ io'[1] = "ok") =>
          /\ resp'[1].request = "POST"
          /\ resp'[1].status = 200
          /\ store' = Some(processBatch(EmptyLedger, updates[1], now))
          /\ \A s \in Stations :
                (\A k \in DOMAIN updates[1] : updates[1][k].icao # s) =>
                   /\ Get(store').stationStatus[s] = Null
                   /\ EventsOf(Get(store').outageLog, s) = <<>>
          /\ Len(Get(store').outageLog) <= Len(updates[1])]_vars

\* KXXX is persisted with a status and an event; a POST about KORD alone,
\* whose read threw, is about to save a ledger that knows nothing of KXXX.
C25_Witness ==
    /\ pc[1] = "saving"
    /\ io[1] = "error"
    /\ store # Null
    /\ Ledger.stationStatus["KXXX"] # Null
    /\ EventsOf(Ledger.outageLog, "KXXX") # <<>>
    /\ updates[1][1].icao = "KORD"
    /\ Get(data[1]).stationStatus["KXXX"] = Null
    /\ EventsOf(Get(data[1]).outageLog, "KXXX") = <<>>

\* An event is open, with no end, no Zulu end and no duration, or closed, with
\* an end, a Zulu end and a duration of 0 minutes or more.
IsOpen(e) == e.endTime = Null /\ e.endTimeZulu = Null /\ e.duration = Null
IsClosed(e) ==
    /\ e.endTime # Null /\ e.endTimeZulu # Null
    /\ e.duration # Null /\ Get(e.duration) >= 0

\* The fields an event is appended with.
Identity(e) == <<e.icao, e.stationName, e.startTime, e.startTimeZulu>>

\* A POST that read the persisted ledger replaces it by its own.
SavesOver(h) ==
    /\ pc[h] = "saving" /\ pc'[h] = "idle"
    /\ store # Null /\ store' # store
    /\ snapshot[h] = store

\* C26: every event of a persisted ledger is either open or closed, never
\* half-closed, and a POST that saves over the ledger it read leaves the icao,
\* stationName, startTime and startTimeZulu of every event as they were.
C26_EventsWellFormed ==
    [][/\ \A i \in DOMAIN Ledger'.outageLog :
             IsOpen(Ledger'.outageLog[i]) \/ IsClosed(Ledger'.outageLog[i])
       /\ SavesOver(1) =>
             /\ Len(Ledger'.outageLog) >= Len(Ledger.outageLog)
             /\ \A i \in DOMAIN Ledger.outageLog :
                   Identity(Ledger'.outageLog[i]) = Identity(Ledger.outageLog[i])]_vars

\* An event opened at 0 is persisted closed, at a later observation, by a POST
\* that also opened an event after it.
C26_Witness ==
    /\ store # Null
    /\ Len(hist) = 2
    /\ Len(Ledger.outageLog) = 2
    /\ IsClosed(Ledger.outageLog[1])
    /\ Get(Ledger.outageLog[1].endTime) > Ledger.outageLog[1].startTime
    /\ IsOpen(Ledger.outageLog[2])
    /\ hist[1][1].hasFlag

\* The log `after` holds the events of `before` from the one after the first
\* `dropped` on, at the same distance from each other, each equal to what it
\* was unless it was open and of a station the body mentions, and then still
\* with the fields it was appended with.
KeepsEvents(before, after, body, dropped) ==
    /\ Len(after) >= Len(before) - dropped
    /\ \A i \in (dropped + 1)..Len(before) :
          LET old == before[i]
              new == after[i - dropped]
          IN  /\ Identity(new) = Identity(old)
              /\ old.endTime # Null => new = old
              /\ (\A k \in DOMAIN body : body[k].icao # old.icao) => new = old

\* C27: the log a POST is about to save holds the events of the log it read
\* in their order: none is dropped unless the log is at its cap, an event that
\* was closed is unchanged, and so is every event of a station the body does
\* not mention.
C27_OtherEventsUntouched ==
    pc[1] = "saving" =>
       LET before == Get(snapshot[1]).outageLog
           after == Get(data[1]).outageLog
       IN  /\ \E dropped \in 0..Len(updates[1]) :
                 KeepsEvents(before, after, updates[1], dropped)
           /\ Len(after) < MAX_OUTAGE_EVENTS =>
                 KeepsEvents(before, after, updates[1], 0)

\* KORD and KXXX are both down; the recovery of KORD is about to be saved and
\* has closed the event of KORD alone.
C27_Witness ==
    /\ pc[1] = "saving"
    /\ updates[1] = <<Update("KORD", FALSE, 90000, ZuluOf(90000))>>
    /\ LET before == Get(snapshot[1]).outageLog
           after == Get(data[1]).outageLog
       IN  /\ Len(before) = MAX_OUTAGE_EVENTS
           /\ before[1].icao = "KORD" /\ before[1].endTime = Null
           /\ after[1].endTime # Null
           /\ before[MAX_OUTAGE_EVENTS].icao = "KXXX"
           /\ before[MAX_OUTAGE_EVENTS].endTime = Null
           /\ after[MAX_OUTAGE_EVENTS] = before[MAX_OUTAGE_EVENTS]

\* C28: a DELETE that answers with success leaves no blob, whether or not
\* there was one, so that the store reads as the empty ledger; the GET that
\* comes next answers with the empty ledger and the POST that comes next
\* works from the empty ledger, every station without a status.  A DELETE that
\* fails answers 500 "Failed to clear" and leaves the blob as it was.
C28_DeleteResets ==
    [][/\ \A delOk \in BOOLEAN :
             DELETE(1, delOk) =>
                IF resp'[1].status = 200
                THEN /\ delOk
                     /\ store' = Null
                     /\ getData(store', TRUE) = EmptyLedger
                ELSE /\ resp'[1] = Failure("DELETE", "Failed to clear")
                     /\ store' = store
       /\ (store = Null /\ DELETE(1, TRUE)) => resp'[1] = Ok("DELETE")
       /\ (resp[1] = Ok("DELETE") /\ resp'[1].request = "GET") =>
             /\ resp'[1].status = 200
             /\ resp'[1].body = EmptyLedger
       /\ (resp[1] = Ok("DELETE") /\ pc'[1] = "saving") =>
             /\ \A s \in Stations : Get(snapshot'[1]).stationStatus[s] = Null
             /\ Get(data'[1]) = processBatch(EmptyLedger, updates'[1], now)
             /\ \A k \in DOMAIN updates'[1] :
                   updates'[1][k].hasFlag => Get(data'[1]).outageLog # <<>>]_vars

\* A DELETE has answered with success: no blob is left and the store reads
\* as the empty ledger.
C28_Witness ==
    /\ resp[1] = Ok("DELETE")
    /\ io[1] = "ok"
    /\ store = Null
    /\ Ledger = EmptyLedger
    /\ ENABLED (\E b \in SingleBatches : PostLoad(1, b, TRUE, MaxHist))

\* LIFR < IFR < MVFR < VFR.
Rank(cat) ==
    CASE cat = "LIFR" -> 0
      [] cat = "IFR" -> 1
      [] cat = "MVFR" -> 2
      [] cat = "VFR" -> 3

\* The layers of a call (none when `clouds` is missing), the layers with one
\* more at position k, and the layers with the k-th replaced.
LayersOf(clouds) == IF clouds = Null THEN <<>> ELSE Get(clouds)
WithLayer(layers, k, c) ==
    SubSeq(layers, 1, k - 1) \o <<c>> \o SubSeq(layers, k, Len(layers))
Rebased(layers, k, c) == [layers EXCEPT ![k] = c]

\* Layers that are no ceiling.
LowLayers == [cover : {"FEW", "SCT"}, base : {499, 3000}]

\* C30: the category determineFltCat returns never gets better (LIFR < IFR <
\* MVFR < VFR) when the visibility is lowered, when the base of a BKN, OVC or
\* VV layer is lowered or when a layer is added anywhere, and it stays the same
\* when a FEW or SCT layer is added or an SCT layer is replaced by another FEW
\* or SCT layer.
C30_CategoryIsMonotone ==
    (arg # Null /\ ret # Null) =>
        (Get(arg).fn = "determineFltCat" =>
            LET visib == Get(arg).visib
                layers == LayersOf(Get(arg).clouds)
                rank == Rank(Get(ret))
                cat(v, cl) == determineFltCat(v, Some(cl))
            IN  /\ cat(visib, layers) = Get(ret)
                /\ \A v \in VisibInputs :
                      (v.type = "number" /\ visib.type = "number"
                         /\ v.value < visib.value) =>
                         Rank(cat(v, layers)) <= rank
                /\ \A k \in DOMAIN layers, c \in Layers \cup [cover : {"OVC"}, base : {499, 999}] :
                      (/\ layers[k].cover \in {"BKN", "OVC", "VV"}
                       /\ c.cover \in {"BKN", "OVC", "VV"}
                       /\ c.base < layers[k].base) =>
                         Rank(cat(visib, Rebased(layers, k, c))) <= rank
                /\ \A k \in 1..(Len(layers) + 1), c \in Layers \cup LowLayers :
                      Rank(cat(visib, WithLayer(layers, k, c))) <= rank
                /\ \A k \in 1..(Len(layers) + 1), c \in LowLayers :
                      cat(visib, WithLayer(layers, k, c)) = Get(ret)
                /\ \A k \in DOMAIN layers, c \in LowLayers :
                      layers[k].cover \in {"FEW", "SCT"} =>
                         cat(visib, Rebased(layers, k, c)) = Get(ret))

\* MVFR under a broken layer at 1000 listed before a scattered one at 499:
\* a vertical visibility of 499 added after them gives LIFR, a scattered layer
\* nothing new.
C30_Witness ==
    /\ arg = Some([fn |-> "determineFltCat", visib |-> NumberVisib(SM(10)),
                   clouds |-> Some(<<[cover |-> "BKN", base |-> 1000],
                                     [cover |-> "SCT", base |-> 499]>>)])
    /\ ret = Some("MVFR")
    /\ determineFltCat(NumberVisib(SM(10)),
                       Some(<<[cover |-> "BKN", base |-> 1000],
                              [cover |-> "SCT", base |-> 499],
                              [cover |-> "VV", base |-> 499]>>)) = "LIFR"

\* What the client's store shows.
View == <<clientStationStatus, clientOutageLog, isLoading, lastFetch>>

====
